---- MODULE Spec2Model ----
(***************************************************************************)
(* Model of archive-github-org (src/main.go): the run of main, from the    *)
(* paginated listing (fetchReposData) through the metadata persister       *)
(* (storeReposResponses), the clone worker pool (cloneRepos) and the       *)
(* packaging (fillZipWriter) to the removal of the working directory.      *)
(*                                                                         *)
(* A repository descriptor is its index in the organization (1..T); its    *)
(* fields are the operators Name and CloneUrl.  Descriptors 0 and -1 are   *)
(* repositories named like the working directory and like the persister's  *)
(* file.  A file name is a sequence of tokens (<<"responses", ".json">>),  *)
(* a path a sequence of names.                                             *)
(***************************************************************************)
EXTENDS Integers, Sequences, FiniteSets, TLC

\* ---------------------------------------------------------------- constants
cloningWorkers == 5
maxPages == 10
perPage == 100

\* ------------------------------------------------------------------- bounds
\* Organization sizes of the whole run (Spec) and of the listing alone
\* (FetchSpec).
MaxRepos == 3
MaxTotal == 1001
\* Listing sizes of the clone pool alone (PoolSpec).
MaxItems == 5
\* Listing sizes of the runs over repositories with chosen names (NamedSpec).
MaxNamed == 2
\* Listing size of the clone pool with more items than workers (BusySpec).
MaxBusy == 6

Workers == 1..cloningWorkers

Nil == "nil"

VARIABLES
    T,          \* number of repositories the organization has (the server's state)
    ctxDone,    \* ctx.Done() is closed: the deadline fired (or cancel ran)
    proc,       \* "running" | "exited" (main returned) | "crashed" (a panic ended the process)
    mainpc,     \* position of main
    defers,     \* main's deferred calls, last registered first
    reposData,  \* main's reposData
    fpc,        \* position of fetchReposData: "newreq" | "loop" | "ret"
    fi,         \* fetchReposData's page counter i
    repos,      \* fetchReposData's repos
    ferr,       \* fetchReposData's function-scope err (set by http.NewRequest)
    fret,       \* what fetchReposData returned: [repos, err, via]
    requests,   \* pages requested so far, in order
    pageLens,   \* length of each page received, in order
    wg,         \* the WaitGroup's counter
    spawned,    \* workers started so far by cloneRepos' first loop
    pi,         \* number of items the producer loop has sent
    sent,       \* the items (indices into reposData) sent on work, in order
    closed,     \* close(work) was called
    wpc,        \* per worker: "idle" | "select" | "clone" | "done"
    witem,      \* per worker: the item it is cloning (0: none)
    attempts,   \* per listed item: number of clone attempts started
    outcome,    \* per listed item: "none" | "ok" | "fail"
    ppc,        \* the persister goroutine's position
    fs,         \* the working directory: [dir: "absent" | "present" | "removed",
                \* stored: responses.json was written]; see Files
    zip,        \* the archive file: [made, entries, finalized, closed]
    walk,       \* fillZipWriter: the entries WalkDir still has to visit
    fillErr     \* what fillZipWriter returned (Nil while none)

vars == <<T, ctxDone, proc, mainpc, defers, reposData, fpc, fi, repos, ferr, fret,
          requests, pageLens, wg, spawned, pi, sent, closed, wpc, witem, attempts, outcome, ppc, fs, zip, walk, fillErr>>

fetchVars == <<fpc, fi, repos, ferr, fret, requests, pageLens>>
poolVars == <<spawned, pi, sent, closed, wpc, witem, attempts, outcome>>
packVars == <<zip, walk, fillErr>>

\* ------------------------------------------------------------------ helpers
Min(a, b) == IF a < b THEN a ELSE b

\* errors.Wrap of github.com/pkg/errors: nil stays nil.
Wrap(err, msg) == IF err = Nil THEN Nil ELSE msg

\* The listing API: page p (from 1) of an organization with total repositories.
ServerPage(total, p) ==
    LET first == (p - 1) * perPage
        n == IF total > first THEN Min(perPage, total - first) ELSE 0
    IN  [k \in 1..n |-> first + k]

\* The descriptor's fields.
Name(id) ==
    CASE id = 0 -> <<"org-archive-date">>
      [] id = -1 -> <<"responses", ".json">>
      [] OTHER -> <<ToString(id)>>
CloneUrl(id) == <<<<"https:">>, <<>>, <<"host">>, <<"org">>, Name(id) \o <<".git">>>>

Running == proc = "running"

\* ------------------------------------------------------------------ deadline
\* context.WithTimeout(context.Background(), programTimeout): the timer fires.
DeadlineFires ==
    /\ Running
    /\ ~ctxDone
    /\ mainpc # "exit"
    /\ ctxDone' = TRUE
    /\ UNCHANGED <<T, proc, mainpc, defers, reposData, fetchVars, wg, poolVars,
                   ppc, fs, packVars>>

\* ------------------------------------------------------------ fetchReposData
FetchReturn(rs, e, via) == [repos |-> rs, err |-> e, via |-> via]

\* Lines 213-224: build the request; repos starts empty.
fetchReposData_NewRequest ==
    /\ Running
    /\ mainpc = "fetch"
    /\ fpc = "newreq"
    /\ \E e \in {Nil, "invalid URL"} :
         /\ ferr' = e
         /\ IF e # Nil
            THEN /\ fret' = FetchReturn(<<>>, Wrap(e, "could not create new http request"), "newreq")
                 /\ fpc' = "ret"
            ELSE /\ fret' = fret
                 /\ fpc' = "loop"
    /\ UNCHANGED <<T, ctxDone, proc, mainpc, defers, reposData, fi, repos, requests,
                   pageLens, wg, poolVars, ppc, fs, packVars>>

\* Lines 226-228: the select finds ctx.Done() ready; err is the function-scope
\* err, which line 214 left nil.
fetchReposData_CtxDone ==
    /\ Running
    /\ mainpc = "fetch"
    /\ fpc = "loop"
    /\ ctxDone
    /\ fret' = FetchReturn(<<>>, Wrap(ferr, "context finished"), "ctx")
    /\ fpc' = "ret"
    /\ UNCHANGED <<T, ctxDone, proc, mainpc, defers, reposData, fi, repos, ferr,
                   requests, pageLens, wg, poolVars, ppc, fs, packVars>>

\* Where a loop iteration that received a whole page goes: line 254 returns on
\* a short page, line 225 ends the loop after maxPages (line 259).
PageExitNoShort(len, i) == IF i + 1 > maxPages THEN "maxPages" ELSE "next"

PageExitEarlyLimit(len, i) ==
    IF len < perPage THEN "short"
    ELSE IF i + 1 >= maxPages THEN "maxPages"
    ELSE "next"

PageExit(len, i) ==
    IF len < perPage THEN "short"
    ELSE IF i + 1 > maxPages THEN "maxPages"
    ELSE "next"

\* Lines 238, 242, 248: a failed request returns nil and the error, whatever
\* rs was fetched before.
FailedReturnPartial(rs, e) == FetchReturn(rs, e, "failed")

FailedReturn(rs, e) == FetchReturn(<<>>, e, "failed")

\* Lines 229-256 (the default branch) with the loop's i++ and exit test.
fetchReposData_Request ==
    /\ Running
    /\ mainpc = "fetch"
    /\ fpc = "loop"
    /\ ~ctxDone
    /\ requests' = Append(requests, fi)
    /\ \E res \in {"ok", "transport", "status", "decode"} :
         IF res # "ok"
         THEN /\ fret' = FailedReturn(repos, res)
              /\ fpc' = "ret"
              /\ UNCHANGED <<fi, repos, pageLens>>
         ELSE LET respStr == ServerPage(T, fi)
                  all == repos \o respStr
                  exit == PageExit(Len(respStr), fi)
              IN  /\ repos' = all
                  /\ pageLens' = Append(pageLens, Len(respStr))
                  /\ IF exit = "next"
                     THEN /\ fi' = fi + 1
                          /\ UNCHANGED <<fret, fpc>>
                     ELSE /\ fret' = FetchReturn(all, Nil, exit)
                          /\ fpc' = "ret"
                          /\ fi' = fi
    /\ UNCHANGED <<T, ctxDone, proc, mainpc, defers, reposData, ferr, wg, poolVars,
                   ppc, fs, packVars>>

\* ---------------------------------------------------------------------- main
\* Lines 47-51: panic on an error, otherwise go on with the listing returned.
main_CheckFetch ==
    /\ Running
    /\ mainpc = "fetch"
    /\ fpc = "ret"
    /\ IF fret.err # Nil
       THEN /\ mainpc' = "panic"
            /\ UNCHANGED <<reposData, attempts, outcome>>
       ELSE /\ mainpc' = "mkdir"
            /\ reposData' = fret.repos
            /\ attempts' = [k \in 1..Len(fret.repos) |-> 0]
            /\ outcome' = [k \in 1..Len(fret.repos) |-> "none"]
    /\ UNCHANGED <<T, ctxDone, proc, defers, fetchVars, wg, spawned, pi, sent, closed,
                   wpc, witem, ppc, fs, packVars>>

\* --------------------------------------------------------------- file system
\* dirFilename (line 53) is one path element.
dirFilename == <<<<"org-archive-date">>>>

Dir(p) == [path |-> p, kind |-> "dir", data |-> "-"]
File(p, bytes) == [path |-> p, kind |-> "file", data |-> bytes]
Symlink(p, target) == [path |-> p, kind |-> "symlink", data |-> target]

\* path.Base (line 171): the last element, trailing slashes dropped.
RECURSIVE Base(_)
Base(s) ==
    IF Len(s) = 0 THEN <<".">>
    ELSE IF s[Len(s)] = <<>> THEN Base(SubSeq(s, 1, Len(s) - 1))
    ELSE s[Len(s)]

\* strings.TrimSuffix (line 172).
TrimSuffix(name, suffix) ==
    IF Len(name) > 0 /\ name[Len(name)] = suffix
    THEN SubSeq(name, 1, Len(name) - 1)
    ELSE name

\* Lines 171-173: the directory a clone URL is cloned into, dirFilename+"/"+path.
CloneDest(s) == dirFilename \o <<TrimSuffix(Base(s), ".git")>>

\* What git.PlainCloneContext (lines 173-179) leaves at dest when it succeeds:
\* the repository's work tree.  Two shapes of repository, by descriptor, and
\* for descriptor 0 a directory 1 holding a regular file link.
CloneTree(dest, id) ==
    {Dir(dest)} \cup
    IF id = 0
    THEN {Dir(dest \o <<<<"1">>>>),
          File(dest \o <<<<"1">>, <<"link">>>>, "link bytes")}
    ELSE IF id % 2 = 1
    THEN {File(dest \o <<<<"README">>>>, "readme bytes"),
          Symlink(dest \o <<<<"link">>>>, "README")}
    ELSE {Dir(dest \o <<<<"sub">>>>),
          File(dest \o <<<<"sub">>, <<"f">>>>, "f bytes"),
          Dir(dest \o <<<<"empty">>>>),
          Symlink(dest \o <<<<"d">>>>, "sub")}

\* The file the persister writes (line 204).
responsesJson == dirFilename \o <<<<"responses", ".json">>>>

\* The entries below the current directory: the working directory made by line
\* 54 until line 80 removes it, the persister's file once written, and the
\* work tree of every clone that succeeded.
Files ==
    IF fs.dir # "present" THEN {}
    ELSE {Dir(dirFilename)}
         \cup (IF fs.stored THEN {File(responsesJson, "listing json")} ELSE {})
         \cup UNION {CloneTree(CloneDest(CloneUrl(reposData[k])), reposData[k]) :
                        k \in {j \in 1..Len(reposData) : outcome[j] = "ok"}}

\* The clone of item k can succeed: its destination is not the file the
\* persister has written.
DestFree(k) == ~(fs.stored /\ CloneDest(CloneUrl(reposData[k])) = responsesJson)

\* os.WriteFile (line 204) can succeed: no clone has made a directory of its
\* path.
ResponsesFree ==
    \A k \in 1..Len(reposData) :
        ~(outcome[k] = "ok" /\ CloneDest(CloneUrl(reposData[k])) = responsesJson)

\* Lines 53-57: os.Mkdir(dirFilename).
main_Mkdir ==
    /\ Running
    /\ mainpc = "mkdir"
    /\ \E ok \in BOOLEAN :
         IF ok
         THEN /\ fs' = [fs EXCEPT !.dir = "present"]
              /\ mainpc' = "store"
         ELSE /\ fs' = fs
              /\ mainpc' = "panic"
    /\ UNCHANGED <<T, ctxDone, proc, defers, reposData, fetchVars, wg, poolVars, ppc,
                   packVars>>

\* ------------------------------------------------------ storeReposResponses
\* Lines 60, 196-197: wg.Add(1), then the goroutine starts.
storeReposResponses ==
    /\ Running
    /\ mainpc = "store"
    /\ wg' = wg + 1
    /\ ppc' = "marshal"
    /\ mainpc' = "spawn"
    /\ UNCHANGED <<T, ctxDone, proc, defers, reposData, fetchVars, poolVars, fs,
                   packVars>>

\* Lines 199-203: json.MarshalIndent; an error panics.
storeReposResponses_Marshal ==
    /\ Running
    /\ ppc = "marshal"
    /\ \E ok \in BOOLEAN : ppc' = IF ok THEN "write" ELSE "panic"
    /\ UNCHANGED <<T, ctxDone, proc, mainpc, defers, reposData, fetchVars, wg,
                   poolVars, fs, packVars>>

\* Lines 204-208: os.WriteFile(dirFilename+"/responses.json"); an error panics.
storeReposResponses_WriteFile ==
    /\ Running
    /\ ppc = "write"
    /\ \E ok \in {b \in BOOLEAN : b => ResponsesFree} :
         IF ok
         THEN /\ fs' = [fs EXCEPT !.stored = TRUE]
              /\ ppc' = "return"
         ELSE /\ fs' = fs
              /\ ppc' = "panic"
    /\ UNCHANGED <<T, ctxDone, proc, mainpc, defers, reposData, fetchVars, wg,
                   poolVars, packVars>>

\* Line 198: the deferred wg.Done() runs when the goroutine returns and also
\* when it panics, before the panic ends the process.
storeReposResponses_Deferred ==
    /\ Running
    /\ ppc \in {"return", "panic"}
    /\ wg' = wg - 1
    /\ ppc' = IF ppc = "return" THEN "done" ELSE "dying"
    /\ UNCHANGED <<T, ctxDone, proc, mainpc, defers, reposData, fetchVars, poolVars,
                   fs, packVars>>

\* The panic of lines 202/206, its deferred call done, ends the process.
storeReposResponses_Panic ==
    /\ Running
    /\ ppc = "dying"
    /\ proc' = "crashed"
    /\ UNCHANGED <<T, ctxDone, mainpc, defers, reposData, fetchVars, wg, poolVars,
                   ppc, fs, packVars>>

\* ---------------------------------------------------------------- cloneRepos
\* Lines 154-186: wg.Add(1) and start the next worker; after the last one the
\* producer loop begins.
cloneRepos_StartWorker ==
    /\ Running
    /\ mainpc = "spawn"
    /\ spawned < cloningWorkers
    /\ wg' = wg + 1
    /\ spawned' = spawned + 1
    /\ wpc' = [wpc EXCEPT ![spawned + 1] = "select"]
    /\ mainpc' = IF spawned + 1 = cloningWorkers THEN "produce" ELSE "spawn"
    /\ UNCHANGED <<T, ctxDone, proc, defers, reposData, fetchVars, pi, sent, closed,
                   witem, attempts, outcome, ppc, fs, packVars>>

\* Line 188: the item the producer loop sends after having sent i items.
NextItemAgain(i) == IF i = 0 THEN 1 ELSE i

NextItem(i) == i + 1

\* Line 188: the range loop over the n descriptors goes on after i items.
LoopRunsShort(i, n) == i < n - 1

LoopRuns(i, n) == i < n

\* Line 165: a worker receives from work only while it waits at its select; a
\* worker that is cloning (line 173) or has returned is not receiving.
ReceivingWhileCloning(w) == wpc[w] \in {"select", "clone"}

Receiving(w) == wpc[w] = "select"

\* Line 189 with line 165: work is unbuffered, so the send and one worker's
\* receive are one step; the worker then starts the clone (lines 171-173).
\* A worker whose select finds both ctx.Done() and the send ready may take
\* either.
cloneRepos_Send(w) ==
    /\ Running
    /\ mainpc = "produce"
    /\ LoopRuns(pi, Len(reposData))
    /\ Receiving(w)
    /\ LET k == NextItem(pi)
       IN  /\ sent' = Append(sent, k)
           /\ witem' = [witem EXCEPT ![w] = k]
           /\ attempts' = [attempts EXCEPT ![k] = @ + 1]
    /\ pi' = pi + 1
    /\ wpc' = [wpc EXCEPT ![w] = "clone"]
    /\ UNCHANGED <<T, ctxDone, proc, mainpc, defers, reposData, fetchVars, wg,
                   spawned, closed, outcome, ppc, fs, packVars>>

\* Line 192: close(work); cloneRepos returns.
cloneRepos_Close ==
    /\ Running
    /\ mainpc = "produce"
    /\ ~LoopRuns(pi, Len(reposData))
    /\ closed' = TRUE
    /\ mainpc' = "wait"
    /\ UNCHANGED <<T, ctxDone, proc, defers, reposData, fetchVars, wg, spawned, pi,
                   sent, wpc, witem, attempts, outcome, ppc, fs,
                   packVars>>

\* Lines 162-164, 158: the select takes ctx.Done(); the worker returns.
worker_CtxDone(w) ==
    /\ Running
    /\ wpc[w] = "select"
    /\ ctxDone
    /\ wpc' = [wpc EXCEPT ![w] = "done"]
    /\ wg' = wg - 1
    /\ UNCHANGED <<T, ctxDone, proc, mainpc, defers, reposData, fetchVars, spawned,
                   pi, sent, closed, witem, attempts, outcome, ppc, fs,
                   packVars>>

\* Lines 165-169, 158: the receive finds work closed; the worker returns.
worker_WorkClosed(w) ==
    /\ Running
    /\ wpc[w] = "select"
    /\ closed
    /\ wpc' = [wpc EXCEPT ![w] = "done"]
    /\ wg' = wg - 1
    /\ UNCHANGED <<T, ctxDone, proc, mainpc, defers, reposData, fetchVars, spawned,
                   pi, sent, closed, witem, attempts, outcome, ppc, fs,
                   packVars>>

\* Lines 180-183: where the worker goes when the clone has returned res.
AfterCloneQuit(res) == IF res = "fail" THEN "done" ELSE "select"

AfterClone(res) == "select"

\* Lines 173-183: git.PlainCloneContext returns; an error is printed.
worker_CloneReturns(w) ==
    /\ Running
    /\ wpc[w] = "clone"
    /\ \E res \in {r \in {"ok", "fail"} : r = "ok" => DestFree(witem[w])} :
         /\ outcome' = [outcome EXCEPT ![witem[w]] = res]
         /\ wpc' = [wpc EXCEPT ![w] = AfterClone(res)]
    /\ witem' = [witem EXCEPT ![w] = 0]
    /\ UNCHANGED <<T, ctxDone, proc, mainpc, defers, reposData, fetchVars, wg,
                   spawned, pi, sent, closed, attempts, ppc, fs, packVars>>

\* Line 64: wg.Wait() returns when the counter n is zero.
WaitReturnsEarly(n) == n <= 1

WaitReturns(n) == n = 0

main_Wait ==
    /\ Running
    /\ mainpc = "wait"
    /\ WaitReturns(wg)
    /\ mainpc' = "openzip"
    /\ UNCHANGED <<T, ctxDone, proc, defers, reposData, fetchVars, wg, poolVars, ppc,
                   fs, packVars>>

\* ------------------------------------------------------------- fillZipWriter
\* Byte order of the file names that occur, as os.ReadDir sorts them.
NameOrder ==
    <<<<"1">>, <<"2">>, <<"3">>, <<"4">>, <<"5">>, <<"6">>, <<"7">>, <<"8">>, <<"9">>,
      <<"README">>, <<"d">>, <<"empty">>, <<"f">>, <<"link">>,
      <<"org-archive-date">>, <<"responses", ".json">>, <<"sub">>>>

NameRank(n) == CHOOSE k \in 1..Len(NameOrder) : NameOrder[k] = n

\* The order in which filepath.WalkDir reaches two paths: a directory before
\* what it holds, the names of one directory in byte order.
RECURSIVE PathLess(_, _)
PathLess(p, q) ==
    IF p = <<>> THEN q # <<>>
    ELSE IF q = <<>> THEN FALSE
    ELSE IF Head(p) = Head(q) THEN PathLess(Tail(p), Tail(q))
    ELSE NameRank(Head(p)) < NameRank(Head(q))

IsPrefix(p, q) == Len(p) <= Len(q) /\ SubSeq(q, 1, Len(p)) = p

RECURSIVE SortEntries(_)
SortEntries(S) ==
    IF S = {} THEN <<>>
    ELSE LET m == CHOOSE e \in S : \A o \in S \ {e} : PathLess(e.path, o.path)
         IN  <<m>> \o SortEntries(S \ {m})

\* Line 89: the entries filepath.WalkDir(dirFilename, ...) visits, in order.
WalkDir(files, root) == SortEntries({e \in files : IsPrefix(root, e.path)})

\* filepath.Rel (line 130): drop the elements both paths start with, climb out
\* of what is left of base.
RECURSIVE CommonLen(_, _)
CommonLen(p, q) ==
    IF p = <<>> \/ q = <<>> THEN 0
    ELSE IF Head(p) = Head(q) THEN 1 + CommonLen(Tail(p), Tail(q))
    ELSE 0

Rel(base, targ) ==
    LET c == CommonLen(base, targ)
        ups == [k \in 1..(Len(base) - c) |-> <<"..">>]
        r == ups \o SubSeq(targ, c + 1, Len(targ))
    IN  IF r = <<>> THEN <<<<".">>>> ELSE r

\* Lines 94-96: the callback returns at once on a directory.
SkipsNothing(e) == FALSE

Skips(e) == e.kind = "dir"

\* Line 103: os.Readlink gives the link's target string; the link is not
\* followed.
ReadlinkFollowed(e) ==
    LET target == SubSeq(e.path, 1, Len(e.path) - 1) \o <<<<e.data>>>>
        hit == {f \in Files : f.path = target}
    IN  IF hit = {} THEN "" ELSE (CHOOSE f \in hit : TRUE).data

Readlink(e) == e.data

\* Line 109: the symlink entry's header name.
SymlinkHeaderName(root, path) == path

\* Lines 126-130: the regular entry's header name.
FileHeaderName(root, path) == Rel(root, path)

\* Lines 108-119 and 126-146: the archive entry written for a file system entry
\* (src is the entry's path in the walk; whole: the payload was written fully).
ZipEntry(e, whole) ==
    [name |-> IF e.kind = "symlink" THEN SymlinkHeaderName(dirFilename, e.path)
              ELSE FileHeaderName(dirFilename, e.path),
     mode |-> IF e.kind = "symlink" THEN "symlink" ELSE "regular",
     payload |-> IF e.kind = "symlink" THEN Readlink(e) ELSE e.data,
     whole |-> whole,
     src |-> e.path]

\* Lines 67-71: create the archive file, defer its Close.
main_OpenZip ==
    /\ Running
    /\ mainpc = "openzip"
    /\ \E ok \in BOOLEAN :
         IF ok
         THEN /\ zip' = [zip EXCEPT !.made = TRUE]
              /\ defers' = <<"zipFile.Close">> \o defers
              /\ mainpc' = "newwriter"
         ELSE /\ UNCHANGED <<zip, defers>>
              /\ mainpc' = "panic"
    /\ UNCHANGED <<T, ctxDone, proc, reposData, fetchVars, wg, poolVars, ppc, fs,
                   walk, fillErr>>

\* Lines 73-75: zip.NewWriter, defer w.Close(), call fillZipWriter, whose
\* WalkDir starts at dirFilename.
main_NewWriter ==
    /\ Running
    /\ mainpc = "newwriter"
    /\ defers' = <<"w.Close">> \o defers
    /\ walk' = WalkDir(Files, dirFilename)
    /\ mainpc' = "fill"
    /\ UNCHANGED <<T, ctxDone, proc, reposData, fetchVars, wg, poolVars, ppc, fs,
                   zip, fillErr>>

\* Lines 89-148: the callback on the next entry.  res says how far it gets:
\* "early" is an error before w.CreateHeader has added the entry (the walk's
\* own error, entry.Info, os.Readlink, zip.FileInfoHeader, filepath.Rel,
\* CreateHeader), "late" one after it (writer.Write, os.Open, io.Copy).
fillZipWriter_Visit ==
    /\ Running
    /\ mainpc = "fill"
    /\ fillErr = Nil
    /\ walk # <<>>
    /\ walk' = Tail(walk)
    /\ \E res \in {"ok", "early", "late"} :
         LET e == Head(walk)
         IN  /\ fillErr' = IF res = "ok" THEN Nil ELSE "i/o error"
             /\ zip' = IF Skips(e) \/ res = "early"
                       THEN zip
                       ELSE [zip EXCEPT !.entries = Append(@, ZipEntry(e, res = "ok"))]
    /\ UNCHANGED <<T, ctxDone, proc, mainpc, defers, reposData, fetchVars, wg,
                   poolVars, ppc, fs>>

\* Lines 75-78: fillZipWriter has returned; an error panics.
main_CheckFill ==
    /\ Running
    /\ mainpc = "fill"
    /\ fillErr # Nil \/ walk = <<>>
    /\ mainpc' = IF fillErr # Nil THEN "panic" ELSE "remove"
    /\ UNCHANGED <<T, ctxDone, proc, defers, reposData, fetchVars, wg, poolVars, ppc,
                   fs, packVars>>

\* Lines 80-85: os.RemoveAll(dirFilename); an error panics, otherwise main
\* prints and returns.
main_RemoveAll ==
    /\ Running
    /\ mainpc = "remove"
    /\ \E ok \in BOOLEAN :
         IF ok
         THEN /\ fs' = [fs EXCEPT !.dir = "removed"]
              /\ mainpc' = "return"
         ELSE /\ fs' = fs
              /\ mainpc' = "panic"
    /\ UNCHANGED <<T, ctxDone, proc, defers, reposData, fetchVars, wg, poolVars, ppc,
                   packVars>>

\* Lines 45, 71, 74: main's deferred calls run, last registered first, when
\* main returns and when it panics.  w.Close() writes the archive's central
\* directory (its error is dropped); zipFile.Close() closes the file.
main_RunDeferred ==
    /\ Running
    /\ mainpc \in {"return", "panic"}
    /\ defers # <<>>
    /\ defers' = Tail(defers)
    /\ \E ok \in BOOLEAN :
         /\ zip' = CASE Head(defers) = "w.Close" -> [zip EXCEPT !.finalized = ok]
                     [] Head(defers) = "zipFile.Close" -> [zip EXCEPT !.closed = TRUE]
                     [] OTHER -> zip
    /\ ctxDone' = (ctxDone \/ Head(defers) = "cancel")
    /\ UNCHANGED <<T, proc, mainpc, reposData, fetchVars, wg, poolVars, ppc, fs, walk,
                   fillErr>>

\* main has returned, or its panic has unwound: the process ends.
main_End ==
    /\ Running
    /\ mainpc \in {"return", "panic"}
    /\ defers = <<>>
    /\ proc' = IF mainpc = "return" THEN "exited" ELSE "crashed"
    /\ UNCHANGED <<T, ctxDone, mainpc, defers, reposData, fetchVars, wg, poolVars,
                   ppc, fs, packVars>>

\* ------------------------------------------------------------ specifications
\* Lines 43-45: the state when main is about to call fetchReposData.
InitRun ==
    /\ ctxDone = FALSE
    /\ proc = "running"
    /\ mainpc = "fetch"
    /\ defers = <<"cancel">>
    /\ reposData = <<>>
    /\ fpc = "newreq"
    /\ fi = 1
    /\ repos = <<>>
    /\ ferr = Nil
    /\ fret = FetchReturn(<<>>, Nil, "none")
    /\ requests = <<>>
    /\ pageLens = <<>>
    /\ wg = 0
    /\ spawned = 0
    /\ pi = 0
    /\ sent = <<>>
    /\ closed = FALSE
    /\ wpc = [w \in Workers |-> "idle"]
    /\ witem = [w \in Workers |-> 0]
    /\ attempts = <<>>
    /\ outcome = <<>>
    /\ ppc = "idle"
    /\ fs = [dir |-> "absent", stored |-> FALSE]
    /\ zip = [made |-> FALSE, entries |-> <<>>, finalized |-> FALSE, closed |-> FALSE]
    /\ walk = <<>>
    /\ fillErr = Nil

Init == T \in 0..MaxRepos /\ InitRun

Program ==
    \/ fetchReposData_NewRequest
    \/ fetchReposData_CtxDone
    \/ fetchReposData_Request
    \/ main_CheckFetch
    \/ main_Mkdir
    \/ storeReposResponses
    \/ storeReposResponses_Marshal
    \/ storeReposResponses_WriteFile
    \/ storeReposResponses_Deferred
    \/ storeReposResponses_Panic
    \/ cloneRepos_StartWorker
    \/ \E w \in Workers : cloneRepos_Send(w)
    \/ cloneRepos_Close
    \/ \E w \in Workers : worker_CtxDone(w)
    \/ \E w \in Workers : worker_WorkClosed(w)
    \/ \E w \in Workers : worker_CloneReturns(w)
    \/ main_Wait
    \/ main_OpenZip
    \/ main_NewWriter
    \/ fillZipWriter_Visit
    \/ main_CheckFill
    \/ main_RemoveAll
    \/ main_RunDeferred
    \/ main_End

Next == DeadlineFires \/ Program

Spec == Init /\ [][Next]_vars

\* Every goroutine that can take a step eventually takes one (the Go
\* scheduler); the deadline is the environment's and need not fire.
FairSpec == Spec /\ WF_vars(Program)

\* The listing alone, for organizations of up to MaxTotal repositories.
FetchInit == T \in 0..MaxTotal /\ InitRun

FetchNext ==
    \/ DeadlineFires
    \/ fetchReposData_NewRequest
    \/ fetchReposData_CtxDone
    \/ fetchReposData_Request
    \/ main_CheckFetch

FetchSpec == FetchInit /\ [][FetchNext]_vars

\* The run from line 53 on, for listings of up to MaxNamed repositories among
\* which are repositories named like the working directory and like the
\* persister's file: fetchReposData has returned the listing.
NamedIds == -1..MaxNamed

NamedListings ==
    UNION {{l \in [1..n -> NamedIds] : \A i, j \in 1..n : l[i] = l[j] => i = j} :
             n \in 0..MaxNamed}

NamedInit ==
    /\ reposData \in NamedListings
    /\ T = Len(reposData)
    /\ ctxDone = FALSE
    /\ proc = "running"
    /\ mainpc = "mkdir"
    /\ defers = <<"cancel">>
    /\ fpc = "ret"
    /\ fi = 1
    /\ repos = reposData
    /\ ferr = Nil
    /\ fret = FetchReturn(reposData, Nil, "short")
    /\ requests = <<1>>
    /\ pageLens = <<T>>
    /\ wg = 0
    /\ spawned = 0
    /\ pi = 0
    /\ sent = <<>>
    /\ closed = FALSE
    /\ wpc = [w \in Workers |-> "idle"]
    /\ witem = [w \in Workers |-> 0]
    /\ attempts = [k \in 1..T |-> 0]
    /\ outcome = [k \in 1..T |-> "none"]
    /\ ppc = "idle"
    /\ fs = [dir |-> "absent", stored |-> FALSE]
    /\ zip = [made |-> FALSE, entries |-> <<>>, finalized |-> FALSE, closed |-> FALSE]
    /\ walk = <<>>
    /\ fillErr = Nil

NamedNext ==
    \/ DeadlineFires
    \/ main_Mkdir
    \/ storeReposResponses
    \/ storeReposResponses_Marshal
    \/ storeReposResponses_WriteFile
    \/ storeReposResponses_Deferred
    \/ storeReposResponses_Panic
    \/ cloneRepos_StartWorker
    \/ \E w \in Workers : cloneRepos_Send(w)
    \/ cloneRepos_Close
    \/ \E w \in Workers : worker_CtxDone(w)
    \/ \E w \in Workers : worker_WorkClosed(w)
    \/ \E w \in Workers : worker_CloneReturns(w)
    \/ main_Wait
    \/ main_OpenZip
    \/ main_NewWriter
    \/ fillZipWriter_Visit
    \/ main_CheckFill
    \/ main_RemoveAll
    \/ main_RunDeferred
    \/ main_End

NamedSpec == NamedInit /\ [][NamedNext]_vars

\* The clone pool alone, for listings of up to MaxItems repositories: main has
\* fetched the listing and created the directory, the persister has already
\* written its file and returned, and cloneRepos is about to start its workers.
PoolInit ==
    /\ T \in 0..MaxItems
    /\ ctxDone = FALSE
    /\ proc = "running"
    /\ mainpc = "spawn"
    /\ defers = <<"cancel">>
    /\ reposData = ServerPage(T, 1)
    /\ fpc = "ret"
    /\ fi = 1
    /\ repos = ServerPage(T, 1)
    /\ ferr = Nil
    /\ fret = FetchReturn(ServerPage(T, 1), Nil, "short")
    /\ requests = <<1>>
    /\ pageLens = <<T>>
    /\ wg = 0
    /\ spawned = 0
    /\ pi = 0
    /\ sent = <<>>
    /\ closed = FALSE
    /\ wpc = [w \in Workers |-> "idle"]
    /\ witem = [w \in Workers |-> 0]
    /\ attempts = [k \in 1..T |-> 0]
    /\ outcome = [k \in 1..T |-> "none"]
    /\ ppc = "done"
    /\ fs = [dir |-> "present", stored |-> TRUE]
    /\ zip = [made |-> FALSE, entries |-> <<>>, finalized |-> FALSE, closed |-> FALSE]
    /\ walk = <<>>
    /\ fillErr = Nil

PoolProgram ==
    \/ cloneRepos_StartWorker
    \/ \E w \in Workers : cloneRepos_Send(w)
    \/ cloneRepos_Close
    \/ \E w \in Workers : worker_CtxDone(w)
    \/ \E w \in Workers : worker_WorkClosed(w)
    \/ \E w \in Workers : worker_CloneReturns(w)
    \/ main_Wait

PoolNext == DeadlineFires \/ PoolProgram

PoolSpec == PoolInit /\ [][PoolNext]_vars

PoolFairSpec == PoolSpec /\ WF_vars(PoolProgram)

\* The clone pool handed more items than it has workers.
BusyInit ==
    /\ T = MaxBusy
    /\ ctxDone = FALSE
    /\ proc = "running"
    /\ mainpc = "spawn"
    /\ defers = <<"cancel">>
    /\ reposData = ServerPage(T, 1)
    /\ fpc = "ret"
    /\ fi = 1
    /\ repos = ServerPage(T, 1)
    /\ ferr = Nil
    /\ fret = FetchReturn(ServerPage(T, 1), Nil, "short")
    /\ requests = <<1>>
    /\ pageLens = <<T>>
    /\ wg = 0
    /\ spawned = 0
    /\ pi = 0
    /\ sent = <<>>
    /\ closed = FALSE
    /\ wpc = [w \in Workers |-> "idle"]
    /\ witem = [w \in Workers |-> 0]
    /\ attempts = [k \in 1..T |-> 0]
    /\ outcome = [k \in 1..T |-> "none"]
    /\ ppc = "done"
    /\ fs = [dir |-> "present", stored |-> TRUE]
    /\ zip = [made |-> FALSE, entries |-> <<>>, finalized |-> FALSE, closed |-> FALSE]
    /\ walk = <<>>
    /\ fillErr = Nil

BusySpec == BusyInit /\ [][PoolNext]_vars

\* ==================================================================== claims
Items == 1..Len(reposData)

AllWorkersReturned == \A w \in Workers : wpc[w] = "done"

\* C1: when the deadline fires during cloning, after some but not all of the
\* listed items were handed to workers, the run does not hang: the producer
\* loop is never left at its send with every worker gone, so it finishes, the
\* barrier releases and packaging runs.
C1_DeadlineDuringCloningDoesNotHang ==
    (ctxDone /\ mainpc = "produce" /\ 0 < pi /\ pi < Len(reposData))
        => ~AllWorkersReturned

\* C2: once wg.Wait has released, exactly M clone attempts were made: every
\* listed item was received from work by exactly one worker, whatever the
\* attempts returned.
C2_EachItemAttemptedOnce ==
    mainpc = "openzip" =>
        /\ Len(sent) = Len(reposData)
        /\ \A k \in Items :
             /\ attempts[k] = 1
             /\ Cardinality({j \in 1..Len(sent) : sent[j] = k}) = 1
             /\ outcome[k] \in {"ok", "fail"}

C2_Witness ==
    /\ mainpc = "openzip"
    /\ Len(reposData) >= cloningWorkers
    /\ \E k \in Items : outcome[k] = "fail"
    /\ \E k \in Items : outcome[k] = "ok"

\* C3: a clone that returns an error sends its worker back to its next-item
\* wait, not out of the pool; and while the deadline has not fired the run
\* reaches packaging with every listed item attempted, whichever clones failed.
C3_FailedCloneStopsNothing ==
    /\ [][\A w \in Workers :
            (wpc[w] = "clone" /\ wpc'[w] # "clone") => wpc'[w] = "select"]_vars
    /\ [](mainpc = "openzip" /\ ~ctxDone => \A k \in Items : attempts[k] = 1)
    /\ <>(ctxDone \/ mainpc = "openzip")

C3_Witness ==
    /\ mainpc = "openzip"
    /\ ~ctxDone
    /\ Len(reposData) >= cloningWorkers
    /\ \A k \in Items : outcome[k] = "fail"

\* C4: packaging (the archive opened, the directory walked) has not started
\* while a clone worker or the persister is still running: whenever it has
\* started, every worker has returned and the persister goroutine has ended.
PackagingStarted == zip.made \/ mainpc \in {"newwriter", "fill", "remove"}

PersisterEnded == ppc \in {"done", "dying"}

C4_PackagingAfterBarrier ==
    PackagingStarted => (AllWorkersReturned /\ PersisterEnded /\ wg = 0)

C4_Witness ==
    /\ mainpc = "fill"
    /\ walk # <<>>
    /\ ppc = "done"
    /\ \E k \in Items : outcome[k] = "ok"

\* C5: the clone URLs sent on work are always a prefix of the listing's clone
\* URLs, in listing order and without repetition, and once work is closed they
\* are the whole listing.
SentUrls == [j \in 1..Len(sent) |-> CloneUrl(reposData[sent[j]])]

ListingUrls == [k \in 1..Len(reposData) |-> CloneUrl(reposData[k])]

C5_DispatchInListingOrder ==
    /\ Len(sent) <= Len(reposData)
    /\ SentUrls = SubSeq(ListingUrls, 1, Len(sent))
    /\ \A i, j \in 1..Len(sent) : i # j => SentUrls[i] # SentUrls[j]
    /\ closed => SentUrls = ListingUrls

C5_Witness ==
    /\ closed
    /\ Len(sent) >= cloningWorkers
    /\ SentUrls = ListingUrls

\* C6: the pages requested are 1, 2, 3, ... in order, at most maxPages of
\* them, and none follows a page shorter than perPage; an organization of 150
\* repositories is listed with exactly 2 requests (pages of 100 and 50) and
\* 150 descriptors.
C6_PagesInOrderUntilShort ==
    /\ requests = [k \in 1..Len(requests) |-> k]
    /\ Len(requests) <= maxPages
    /\ \A j \in 1..Len(pageLens) : j < Len(requests) => pageLens[j] = perPage
    /\ (T = 150 /\ fret.via \in {"short", "maxPages"}) =>
           /\ requests = <<1, 2>>
           /\ pageLens = <<100, 50>>
           /\ Len(fret.repos) = 150

C6_Witness == T = 150 /\ fret.via = "short" /\ Len(requests) = 2

\* C7: for every organization size T, T >= maxPages*perPage included,
\* fetchReposData returns all T descriptors in order or an error, never a
\* proper subset with a nil error (stated of the returns of lines 255 and 259
\* and of the error returns; the deadline branch is C8's).
C7_WholeListingOrError ==
    (fpc = "ret" /\ fret.via # "ctx") =>
        (fret.err # Nil \/ fret.repos = [k \in 1..T |-> k])

\* C8: when the deadline has fired before a page request starts,
\* fetchReposData issues no request and returns a non-nil error, so main
\* aborts instead of going on with the listing returned.
C8_DeadlineIsAnError ==
    fret.via = "ctx" => (fret.err # Nil /\ mainpc \in {"fetch", "panic"})

\* C9: the working directory is removed only after the archive was written
\* completely: every entry written, the container finalized and the file
\* closed; it is never removed when packaging failed.
C9_RemovedOnlyAfterArchiveClosed ==
    fs.dir = "removed" =>
        /\ fillErr = Nil
        /\ walk = <<>>
        /\ zip.finalized
        /\ zip.closed

\* C10: every archive entry, regular file or symlink, is named by the source
\* path relative to the working directory's root (the name does not begin with
\* the root's own name), the same function of (root, path) for both kinds.
C10_EntryNamesRelativeToRoot ==
    \A k \in 1..Len(zip.entries) :
        /\ zip.entries[k].name = Rel(dirFilename, zip.entries[k].src)
        /\ ~IsPrefix(dirFilename, zip.entries[k].name)


\* fillZipWriter has returned nil and the working directory is still there.
FillReturnedNil == mainpc = "remove"

EntriesOf(p) == {k \in 1..Len(zip.entries) : zip.entries[k].src = p}

\* C11: every symlink under the working directory gets one archive entry that
\* carries the symlink mode and whose payload is the link's target string, not
\* the bytes of the file the link points to.
C11_SymlinkStoredAsLink ==
    /\ \A k \in 1..Len(zip.entries) :
         \A e \in {f \in Files : f.kind = "symlink" /\ f.path = zip.entries[k].src} :
             /\ zip.entries[k].mode = "symlink"
             /\ zip.entries[k].payload = e.data
             /\ zip.entries[k].payload # ReadlinkFollowed(e)
    /\ FillReturnedNil =>
         \A e \in {f \in Files : f.kind = "symlink"} :
             /\ Cardinality(EntriesOf(e.path)) = 1
             /\ \A k \in EntriesOf(e.path) : zip.entries[k].whole

C11_Witness ==
    /\ FillReturnedNil
    /\ \E e \in Files : e.kind = "symlink" /\ ReadlinkFollowed(e) = "readme bytes"
    /\ \E e \in Files : e.kind = "symlink" /\ e.data = "sub"


\* C12: no two entries of an archive have the same declared name, whatever the
\* tree: regular files and symlinks at any depth, a top-level subdirectory
\* named like the root included.
C12_EntryNamesUnique ==
    \A i, j \in 1..Len(zip.entries) :
        zip.entries[i].name = zip.entries[j].name => i = j


\* C13: when a traversal, read or write step of packaging fails, fillZipWriter
\* stops at that entry and no partial archive is left as output: after a
\* packaging error no entry is added and the archive is never finalized
\* (its central directory written).
C13_NoPartialArchive ==
    fillErr # Nil =>
        /\ ~zip.finalized
        /\ Len(zip.entries) + Len(walk) <= Cardinality(Files)


\* C14: when the request for page k fails, fetchReposData returns an error and
\* no listing (not the descriptors of pages 1..k-1), requests neither page k
\* again nor a later page, and main starts no directory, persister or clone.
C14_FailedPageEndsTheRun ==
    /\ [](fret.via = "failed" =>
            /\ fret.err # Nil
            /\ fret.repos = <<>>
            /\ mainpc \in {"fetch", "panic"}
            /\ fs.dir = "absent"
            /\ ppc = "idle"
            /\ spawned = 0)
    /\ [][fret.via = "failed" => (requests' = requests /\ fret' = fret)]_vars

C14_Witness ==
    /\ fret.via = "failed"
    /\ Len(requests) = 3
    /\ Len(repos) = 2 * perPage
    /\ mainpc = "panic"


\* C15: a persister failure (encoding or file-write error) is fatal to the
\* run: once the persister has failed, wg.Wait does not let main go on and
\* packaging never starts, in every interleaving of the failing goroutine
\* (its deferred wg.Done included) with main and the workers.
PersisterFailed == ppc \in {"panic", "dying"}

PassedBarrier ==
    zip.made \/ mainpc \in {"openzip", "newwriter", "fill", "remove", "return"}

C15_PersisterFailureStopsMain == PersisterFailed => ~PassedBarrier

\* C16: once the deadline has fired no worker takes a new item from work: a
\* worker at its next-item wait leaves through the ctx.Done() branch, so no
\* clone attempt begins after the deadline, even while the producer offers an
\* item.
C16_NoCloneStartsAfterDeadline ==
    [][\A w \in Workers : (wpc[w] = "select" /\ wpc'[w] = "clone") => ~ctxDone]_vars


\* C17: the clone pool and the persister never write the same path under the
\* working directory: the destination derived from a clone URL (its last path
\* element without the .git suffix) is never the persister's responses.json.
C17_WritersDisjoint ==
    \A w \in Workers :
        wpc[w] = "clone" => CloneDest(CloneUrl(reposData[witem[w]])) # responsesJson


\* C18: a listing that ends normally for an organization of exactly k*perPage
\* repositories took k+1 requests, the last answered by an empty page, when
\* k < maxPages, and exactly maxPages requests with no empty page when
\* k = maxPages; in both cases all k*perPage descriptors are returned.
ReturnedListing == fret.via \in {"short", "maxPages"}

C18_ExactMultipleOfPageSize ==
    (ReturnedListing /\ T % perPage = 0 /\ T <= maxPages * perPage) =>
        LET k == T \div perPage
        IN  /\ fret.repos = [j \in 1..T |-> j]
            /\ \A j \in 1..k : pageLens[j] = perPage
            /\ IF k < maxPages
               THEN /\ fret.via = "short"
                    /\ Len(requests) = k + 1
                    /\ Len(pageLens) = k + 1
                    /\ pageLens[k + 1] = 0
               ELSE /\ fret.via = "maxPages"
                    /\ Len(requests) = maxPages
                    /\ Len(pageLens) = maxPages

C18_Witness ==
    /\ ReturnedListing
    /\ T = 2 * perPage
    /\ Len(requests) = 3
    /\ pageLens[3] = 0
    /\ Len(fret.repos) = T


\* C19: when fillZipWriter has returned nil, the archive has exactly one entry
\* for every regular file and every symlink under the root, at any depth, and
\* none for a directory; a symlink to a directory is one symlink entry and
\* nothing below its target is recorded through it.
Recorded == {e \in Files : e.kind # "dir"}

C19_EntriesAreFilesAndSymlinks ==
    FillReturnedNil =>
        /\ Len(zip.entries) = Cardinality(Recorded)
        /\ \A e \in Recorded : \E k \in 1..Len(zip.entries) :
               /\ zip.entries[k].src = e.path
               /\ zip.entries[k].mode =
                      (IF e.kind = "symlink" THEN "symlink" ELSE "regular")
               /\ zip.entries[k].whole
               /\ \A j \in 1..Len(zip.entries) :
                      zip.entries[j].src = e.path => j = k
        /\ \A k \in 1..Len(zip.entries) :
               /\ \E e \in Recorded : e.path = zip.entries[k].src
               /\ \A d \in Files :
                      d.kind = "dir" => zip.entries[k].src # d.path
               /\ \A e \in Files :
                      (e.kind = "symlink" /\ e.path # zip.entries[k].src)
                          => ~IsPrefix(e.path, zip.entries[k].src)

C19_Witness ==
    /\ FillReturnedNil
    /\ \E e \in Files : e.kind = "symlink" /\ e.data = "sub"
    /\ \E d \in Files :
           /\ d.kind = "dir"
           /\ Len(d.path) > 1
           /\ \A f \in Files : f.path # d.path => ~IsPrefix(d.path, f.path)
    /\ \E f \in Files : f.kind = "file" /\ Len(f.path) >= 4


\* C20: at most cloningWorkers clones are in flight, however many items are
\* listed; the items in flight are those the workers at line 173 hold, one
\* each; every item the producer has passed has been received, so the only
\* item offered and not received is the one it is sending; and an item is
\* handed over only to a worker waiting at its select, which takes it.
InFlight == {k \in Items : attempts[k] > 0 /\ outcome[k] = "none"}

Cloning == {w \in Workers : wpc[w] = "clone"}

Offered ==
    IF mainpc = "produce" /\ LoopRuns(pi, Len(reposData)) THEN {NextItem(pi)} ELSE {}

C20_InFlightBounded ==
    /\ Cardinality(InFlight) <= cloningWorkers
    /\ InFlight = {witem[w] : w \in Cloning}
    /\ Cardinality(InFlight) = Cardinality(Cloning)
    /\ Len(sent) = pi
    /\ {k \in Items : attempts[k] > 0} = 1..pi
    /\ Cardinality(Offered) <= 1
    /\ \A k \in Offered : attempts[k] = 0

C20_HandedToWaitingWorker ==
    \A k \in Items :
        attempts'[k] > attempts[k] =>
            \E w \in Workers :
                /\ wpc[w] = "select"
                /\ wpc'[w] = "clone"
                /\ witem'[w] = k

C20_BoundedClonesInFlight ==
    []C20_InFlightBounded /\ [][C20_HandedToWaitingWorker]_vars

C20_Witness ==
    /\ Len(reposData) > cloningWorkers
    /\ Cardinality(InFlight) = cloningWorkers
    /\ mainpc = "produce"
    /\ Offered # {}
    /\ pi = cloningWorkers

====
